---------------------------- MODULE Spec2Model ----------------------------
(***************************************************************************)
(* bar-config: the Bar aggregate (src/src/bar.rs), its components          *)
(* (src/src/components) and the update pipeline between the background     *)
(* worker, the channel and the polling thread.                             *)
(*                                                                         *)
(* Threads: the caller thread (load, recv, try_recv, notify), the worker   *)
(* spawned by start_loop, the tokio timer (time passing), and one other    *)
(* thread of the process that allocates ComponentIDs.                      *)
(***************************************************************************)
EXTENDS Integers, Sequences, FiniteSets, TLC

(***************************************************************************)
(* Bounds of the model.                                                    *)
(***************************************************************************)
\* most component entries in one configuration document (left+center+right)
MaxComps == 2
\* most monitors in one configuration document
MaxMonitors == 1
\* largest configured clock interval, in time units
MaxInterval == 2
\* most ticks of one clock that are due and not yet taken by the worker
MaxDue == 2
\* most IDs waiting in the channel
MaxQueue == 2
\* most ComponentIDs allocated by the other thread of the process
MaxOtherAllocs == 1
\* most chunks (hex pairs and odd pieces) a colour string is put together from
MaxChunks == 4
\* most ticks one clock fires while the elapsed time is tracked
MaxFired == 3
\* most units of time that pass between load() and the first poll while the
\* elapsed time is tracked
MaxWait == 2

(***************************************************************************)
(* Program constants.                                                      *)
(***************************************************************************)
DEFAULT_INTERVAL_MILLIS == 15000

\* Extra.interval: Option<u64> is None (the key is absent)
NoInterval == -1
\* the `interval` value of the document is not an unsigned integer
BadInterval == -2

Events == {"Click", "MouseMotion", "PositionChange"}

VARIABLES
    config,            \* the parsed configuration document given to load()
    loadState,         \* position of load(): parse, convert, ok, invalid_data, panic
    built,             \* components created so far by load()'s convert closure
    COMPONENT_INDEX,   \* the process-wide atomic counter
    allocLog,          \* every value returned by ComponentID::default(), in order
    otherAllocs,       \* number of allocations made by the other thread
    left, center, right, \* the Bar's component lists
    general,           \* Bar.general: none before load() has returned the Bar
    events,            \* Bar.events is Some(..)
    chan,              \* content of the mpsc channel, oldest first
    senders,           \* number of live Sender handles of the channel
    worker,            \* the background thread: none, running, done
    timers,            \* per component stream: live, time to the next tick,
                       \* ticks due, whether it has yielded an error
    pc,                \* the caller thread: idle, recv, try_recv, panicked
    result,            \* what the last poll returned
    updates,           \* update() calls made since the last poll was entered
    notifies,          \* Component::notify calls of the Bar::notify call, while
                       \* it is the last method invoked
    lastOp,            \* the last Bar method the caller invoked
    spawned,           \* number of start_loop() calls: channels made, workers spawned
    time               \* elapsed time, where it is tracked: now, startAt, fired

vars == <<config, loadState, built, COMPONENT_INDEX, allocLog, otherAllocs,
          left, center, right, general, events, chan, senders, worker, timers,
          pc, result, updates, notifies, lastOp, spawned, time>>

loadVars == <<config, loadState, built, left, center, right, general>>
pipeVars == <<events, chan, senders, worker, timers, spawned, time>>
callVars == <<pc, result, updates, notifies, lastOp>>

(***************************************************************************)
(* Helpers.                                                                *)
(***************************************************************************)
Min(S) == CHOOSE x \in S : \A y \in S : x <= y

SeqsUpTo(S, n) == UNION {[1..k -> S] : k \in 0..n}

(***************************************************************************)
(* Strings and Color::from_str (src/src/config.rs).  A string is the       *)
(* sequence of its chars, a char is its Unicode code point; the bytes of   *)
(* the UTF-8 encoding matter because len() and the slices count bytes.     *)
(***************************************************************************)
\* char::len_utf8
len_utf8(c) == IF c < 128 THEN 1 ELSE IF c < 2048 THEN 2 ELSE IF c < 65536 THEN 3 ELSE 4

\* str::len: the length in bytes
RECURSIVE len(_)
len(string) ==
    IF string = <<>> THEN 0 ELSE len_utf8(Head(string)) + len(Tail(string))

\* the byte offset at which each char of the string starts
RECURSIVE ByteOffsets(_)
ByteOffsets(string) ==
    IF string = <<>> THEN <<>>
    ELSE LET rest == ByteOffsets(Tail(string))
         IN  <<0>> \o [i \in DOMAIN rest |-> rest[i] + len_utf8(Head(string))]

\* str::is_char_boundary, given the offsets of the chars and the length
is_char_boundary(offsets, length, index) ==
    \/ index = length
    \/ \E i \in DOMAIN offsets : offsets[i] = index

\* &string[a..b] does not panic: both ends are char boundaries of the string
SliceOk(offsets, length, a, b) ==
    /\ a <= b /\ b <= length
    /\ is_char_boundary(offsets, length, a)
    /\ is_char_boundary(offsets, length, b)

\* &string[a..b]: the chars whose bytes lie in a..b
Slice(string, offsets, a, b) ==
    SelectSeq([i \in DOMAIN string |-> <<string[i], offsets[i]>>],
              LAMBDA p : a <= p[2] /\ p[2] < b)

\* str::to_uppercase, on the chars this model draws strings from: a..z map to
\* A..Z, U+0142 maps to U+0141, every other char is its own upper case
to_uppercase(string) ==
    [i \in DOMAIN string |->
        IF string[i] >= 97 /\ string[i] <= 122 THEN string[i] - 32
        ELSE IF string[i] = 322 THEN 321
        ELSE string[i]]

\* char::to_digit(16); -1 when the char is no hexadecimal digit
to_digit(c) ==
    IF c >= 48 /\ c <= 57 THEN c - 48
    ELSE IF c >= 65 /\ c <= 70 THEN c - 55
    ELSE IF c >= 97 /\ c <= 102 THEN c - 87
    ELSE -1

RECURSIVE RadixValue(_)
RadixValue(digits) ==
    IF digits = <<>> THEN 0
    ELSE 16 * RadixValue(SubSeq(digits, 1, Len(digits) - 1)) + to_digit(digits[Len(digits)])

\* u8::from_str_radix(src, 16): -1 stands for Err (empty, a char that is no
\* digit, or a value that does not fit a u8)
from_str_radix(src) ==
    IF src = <<>> \/ \E i \in DOMAIN src : to_digit(src[i]) = -1 THEN -1
    ELSE IF RadixValue(src) > 255 THEN -1
    ELSE RadixValue(src)

ColorErr == [kind |-> "err", r |-> 0, g |-> 0, b |-> 0, a |-> 0]
ColorPanic == [kind |-> "panic", r |-> 0, g |-> 0, b |-> 0, a |-> 0]

\* the byte ranges Color::from_str slices out of a string of the given length
ColorSlices(n) ==
    IF n = 9 THEN <<<<1, 3>>, <<3, 5>>, <<5, 7>>, <<7, 9>>>>
    ELSE <<<<1, 3>>, <<3, 5>>, <<5, 7>>>>

\* Color::from_str: the Color, the Err(String), or the panic of an unwrap()
\* or of a slice that is cut inside a char
from_str(string) ==
    IF string = <<>> \/ string[1] # 35 \/ (len(string) # 7 /\ len(string) # 9)
    THEN ColorErr
    ELSE LET up == to_uppercase(string)
             bad(c) == LET char_code == c % 256
                       IN  char_code < 48 \/ char_code > 70
                           \/ (char_code > 57 /\ char_code < 65)
             offsets == ByteOffsets(string)
             sl == ColorSlices(len(string))
             val == [k \in DOMAIN sl |->
                        IF SliceOk(offsets, len(string), sl[k][1], sl[k][2])
                        THEN from_str_radix(
                                [i \in DOMAIN Slice(string, offsets, sl[k][1], sl[k][2]) |->
                                    Slice(string, offsets, sl[k][1], sl[k][2])[i][1]])
                        ELSE -1]
         IN  IF \E i \in 2..Len(up) : bad(up[i]) THEN ColorErr
             ELSE IF \E k \in DOMAIN sl : val[k] = -1 THEN ColorPanic
             ELSE [kind |-> "ok", r |-> val[1], g |-> val[2], b |-> val[3],
                   a |-> IF len(string) = 9 THEN val[4] ELSE 255]

(***************************************************************************)
(* ComponentSettings.  An Option is the empty sequence (None) or a         *)
(* sequence of one value (Some); a colour of the document is its string.   *)
(***************************************************************************)
\* "#FF00FF99", "#000000", "#GG0000"
Str_FF00FF99 == <<35, 70, 70, 48, 48, 70, 70, 57, 57>>
Str_000000 == <<35, 48, 48, 48, 48, 48, 48>>
Str_GG0000 == <<35, 71, 71, 48, 48, 48, 48>>
\* '#', U+0141 (two bytes in UTF-8, its low byte is that of 'A'), "0000"
Str_L0000 == <<35, 321, 48, 48, 48, 48>>

\* the fields of ComponentSettings that hold a colour
ColorFields == {"foreground", "background"}

\* no field is set
NoSettings ==
    [foreground |-> <<>>, background |-> <<>>, width |-> <<>>, padding |-> <<>>,
     offset_x |-> <<>>, offset_y |-> <<>>, border |-> <<>>, fonts |-> <<>>]

\* `{ width: 99, fonts: [primary] }`
WidthSettings == [NoSettings EXCEPT !.width = <<99>>, !.fonts = <<"primary">>]

\* every field is set
FullSettings ==
    [foreground |-> <<Str_FF00FF99>>, background |-> <<Str_000000>>,
     width |-> <<99>>, padding |-> <<1>>, offset_x |-> <<-1>>, offset_y |-> <<1>>,
     border |-> <<1>>, fonts |-> <<"primary", "bold">>]

\* `defaults: { width: 100, fonts: [font] }`
WidthDefaults == [NoSettings EXCEPT !.width = <<100>>, !.fonts = <<"font">>]

\* defaults with every field set
FullDefaults ==
    [foreground |-> <<Str_000000>>, background |-> <<Str_FF00FF99>>,
     width |-> <<100>>, padding |-> <<2>>, offset_x |-> <<2>>, offset_y |-> <<-2>>,
     border |-> <<2>>, fonts |-> <<"font", "mono">>]

\* defaults whose foreground is no colour
BadColorDefaults == [WidthDefaults EXCEPT !.foreground = <<Str_GG0000>>]

\* defaults whose foreground is seven bytes that are not six hex digits
PanicColorDefaults == [WidthDefaults EXCEPT !.foreground = <<Str_L0000>>]

\* the colour strings of one settings block of the document
SettingsColors(st) == {st[f][1] : f \in {g \in ColorFields : st[g] # <<>>}}

\* the settings as serde delivers them: every colour string parsed
ParseField(f, value) ==
    IF f \in ColorFields /\ value # <<>> THEN <<from_str(value[1])>> ELSE value

ParseSettings(st) == [f \in DOMAIN st |-> ParseField(f, st[f])]

\* a fallback that treats the fonts like the other fields: the default fonts
\* are taken only when the component has none
fallback_fonts_if_absent(own, defaults) ==
    [f \in DOMAIN own |-> IF own[f] # <<>> THEN own[f] ELSE defaults[f]]

\* ComponentSettings::fallback(&defaults): a field that is None takes the
\* default, the default fonts are appended to the fonts
fallback(own, defaults) ==
    [f \in DOMAIN own |->
        IF f = "fonts" THEN own.fonts \o defaults.fonts
        ELSE IF own[f] # <<>> THEN own[f] ELSE defaults[f]]

(***************************************************************************)
(* Configuration documents (config::Component entries).                    *)
(***************************************************************************)
\* entries whose name selects the clock: a valid interval, or an invalid one
ClockEntries ==
    {[name |-> "clock", interval |-> i, text |-> "absent", settings |-> WidthSettings] :
        i \in (1..MaxInterval) \cup {BadInterval}}

\* entries with another name or with no name (""), with a valid or invalid text
OtherEntries ==
    {[name |-> "", interval |-> NoInterval, text |-> "ok", settings |-> WidthSettings],
     [name |-> "date", interval |-> NoInterval, text |-> "ok", settings |-> WidthSettings],
     [name |-> "date", interval |-> NoInterval, text |-> "bad", settings |-> WidthSettings]}

ConfigEntries == ClockEntries \cup OtherEntries

\* the ways to cut a sequence of entries into left, center and right
Splits(f) == {s \in (0..Len(f)) \X (0..Len(f)) : s[1] <= s[2]}

\* the entries in the order load() converts them
FlatConfig(c) == c.left \o c.center \o c.right

\* every colour string of the document
DocColors(c) ==
    SettingsColors(c.defaults)
        \cup UNION {SettingsColors(FlatConfig(c)[i].settings) : i \in DOMAIN FlatConfig(c)}

\* the document with m monitors, the `defaults` block d and the entries f cut
\* into left, center and right at s
Config(f, s, m, d) ==
    [monitors |-> m,
     defaults |-> d,
     left |-> SubSeq(f, 1, s[1]),
     center |-> SubSeq(f, s[1] + 1, s[2]),
     right |-> SubSeq(f, s[2] + 1, Len(f))]

\* the `defaults` blocks of the documents: one that parses, one with a
\* malformed colour, one with a colour that Color::from_str panics on
ConfigDefaults == {WidthDefaults, BadColorDefaults, PanicColorDefaults}

\* entries with every sample of own settings, for a Clock and an Undynamic
SettingsEntries ==
    {[name |-> n, interval |-> IF n = "clock" THEN 1 ELSE NoInterval,
      text |-> IF n = "clock" THEN "absent" ELSE "ok", settings |-> st] :
        n \in {"clock", ""}, st \in {NoSettings, WidthSettings, FullSettings}}

\* `defaults` blocks that set no field, some fields, every field
SettingsDefaults == {NoSettings, WidthDefaults, FullDefaults}

\* the settings with the fields of S kept, the others absent, and the fonts
Masked(st, S, fonts) ==
    [f \in DOMAIN st |->
        IF f = "fonts" THEN fonts ELSE IF f \in S THEN st[f] ELSE <<>>]

\* font lists of a component and of the `defaults` block
OwnFontLists == {<<>>, <<"primary">>, <<"primary", "bold">>}
DefaultFontLists == {<<>>, <<"font">>, <<"font", "mono">>}

\* a document of one entry with the given settings and `defaults`
MergeConfig(own, defaults) ==
    [monitors |-> 1, defaults |-> defaults,
     left |-> <<[name |-> "", interval |-> NoInterval, text |-> "ok", settings |-> own]>>,
     center |-> <<>>, right |-> <<>>]

\* the pieces colour strings are put together from: "00", "9f", "AF", "G0",
\* "0g", "/:", U+0141, "0"
ColorChunks ==
    {<<48, 48>>, <<57, 102>>, <<65, 70>>, <<71, 48>>, <<48, 103>>, <<47, 58>>,
     <<321>>, <<48>>}

RECURSIVE Concat(_)
Concat(ss) == IF ss = <<>> THEN <<>> ELSE Head(ss) \o Concat(Tail(ss))

\* `left: [{ foreground: <string> }]`
ColorConfig(str) ==
    [monitors |-> 1, defaults |-> NoSettings,
     left |-> <<[name |-> "", interval |-> NoInterval, text |-> "ok",
                 settings |-> [NoSettings EXCEPT !.foreground = <<str>>]]>>,
     center |-> <<>>, right |-> <<>>]

\* serde_fmt::from_str without deserialize_monitors
ParseFailuresAnyMonitors(c) ==
    LET kinds == {from_str(str).kind : str \in DocColors(c)}
    IN  (IF "err" \in kinds THEN {"invalid_data"} ELSE {})
            \cup (IF "panic" \in kinds THEN {"panic"} ELSE {})

\* the ways serde_fmt::from_str(&text) fails on the document: the monitor
\* list is empty, a colour is rejected by Color::from_str, Color::from_str
\* panics
ParseFailures(c) ==
    LET kinds == {from_str(str).kind : str \in DocColors(c)}
    IN  (IF c.monitors = 0 THEN {"invalid_data"} ELSE {})
            \cup (IF "err" \in kinds THEN {"invalid_data"} ELSE {})
            \cup (IF "panic" \in kinds THEN {"panic"} ELSE {})


(***************************************************************************)
(* ComponentID allocation and component construction.                      *)
(***************************************************************************)
\* a plain load in place of the fetch_add: the counter is not advanced
fetch_add_load(v) == [ret |-> v, new |-> v]

\* AtomicUsize::fetch_add(1): one atomic step, returns the previous value.
\* (usize wraps at 2^64, far beyond every bound of this model.)
fetch_add(v) == [ret |-> v, new |-> v + 1]

\* a From that selects the Clock for every entry that has a name
From_any_name(e) == IF e.name # "" THEN "Clock" ELSE "Undynamic"

\* impl From<ConfigComponent> for Component: the variant an entry selects
From(e) == IF e.name = "clock" THEN "Clock" ELSE "Undynamic"

\* Extra::deserialize(extra) of the selected variant succeeds
ExtraDeserializes(e) ==
    IF From(e) = "Clock" THEN e.interval # BadInterval ELSE e.text # "bad"

\* Clock::create / Undynamic::create with the allocated id
Create(e, id) ==
    [id |-> id, kind |-> From(e),
     interval |-> IF From(e) = "Clock" THEN e.interval ELSE NoInterval,
     settings |-> e.settings]

(***************************************************************************)
(* ComponentTrait: what each variant's methods do.                         *)
(***************************************************************************)
\* a Clock that leaves stream() at the trait's default, the empty stream
ClockTraitNoStream == [stream |-> FALSE, update |-> TRUE, notify |-> FALSE]

\* impl ComponentTrait for Clock: stream() is the Interval, update() is true,
\* notify() is the trait's default
ClockTrait == [stream |-> TRUE, update |-> TRUE, notify |-> FALSE]

\* an Undynamic that overrides update() and notify() to report a change
UndynamicTraitDirty == [stream |-> FALSE, update |-> TRUE, notify |-> TRUE]

\* impl ComponentTrait for Undynamic: stream(), update() and notify() are the
\* trait's defaults
UndynamicTrait == [stream |-> FALSE, update |-> FALSE, notify |-> FALSE]

ComponentTrait(comp) == IF comp.kind = "Clock" THEN ClockTrait ELSE UndynamicTrait

\* Clock::stream: the period of the Interval
IntervalOf(comp) ==
    IF comp.interval = NoInterval THEN DEFAULT_INTERVAL_MILLIS ELSE comp.interval

(***************************************************************************)
(* The Bar.                                                                *)
(***************************************************************************)
\* Bar::components / Bar::components_mut
components == left \o center \o right

ComponentIds == {components[i].id : i \in DOMAIN components}

ClockIds == {components[i].id : i \in {j \in DOMAIN components : components[j].kind = "Clock"}}

\* update_component comparing with `!=`: update() of the first other component
update_component_ne(comp_id) ==
    LET hit == {i \in DOMAIN components : components[i].id # comp_id}
    IN  IF hit = {}
        THEN [on |-> -1, ret |-> FALSE]
        ELSE [on |-> components[Min(hit)].id,
              ret |-> ComponentTrait(components[Min(hit)]).update]

\* update_component that updates the first component of the Bar, whatever the ID
update_component_first(comp_id) ==
    IF components = <<>>
    THEN [on |-> -1, ret |-> FALSE]
    ELSE [on |-> components[1].id, ret |-> ComponentTrait(components[1]).update]

\* Bar::update_component: update() of the first component with the ID;
\* `on` is the ID of the component whose update() was called, -1 when none was
update_component(comp_id) ==
    LET hit == {i \in DOMAIN components : components[i].id = comp_id}
    IN  IF hit = {}
        THEN [on |-> -1, ret |-> FALSE]
        ELSE [on |-> components[Min(hit)].id,
              ret |-> ComponentTrait(components[Min(hit)]).update]

\* the elapsed-time record before the pipeline is started
NoTime == [now |-> 0, startAt |-> 0, fired |-> <<>>]

\* what a poll returned: Some(id) / the ComponentID, None, or nothing yet;
\* `seen` is the state of the worker thread at the moment of the return and,
\* while the poll has not returned, at the moment it was entered
NoResult == [kind |-> "unset", id |-> -1, seen |-> "none"]
EnteredResult == [kind |-> "unset", id |-> -1, seen |-> worker]
NoneResult == [kind |-> "empty", id |-> -1, seen |-> worker]
SomeResult(id) == [kind |-> "id", id |-> id, seen |-> worker]

\* the process before load() is called
InitRest ==
    /\ loadState = "parse"
    /\ built = <<>>
    /\ COMPONENT_INDEX = 0
    /\ allocLog = <<>>
    /\ otherAllocs = 0
    /\ left = <<>> /\ center = <<>> /\ right = <<>>
    /\ general = <<>>
    /\ events = FALSE
    /\ chan = <<>>
    /\ senders = 0
    /\ worker = "none"
    /\ timers = <<>>
    /\ pc = "idle"
    /\ result = NoResult
    /\ updates = <<>>
    /\ notifies = <<>>
    /\ lastOp = "none"
    /\ spawned = 0
    /\ time = NoTime

\* load() is given any document of up to MaxComps entries, cut into the
\* three lists in every way, with up to MaxMonitors monitors
Init ==
    \E f \in SeqsUpTo(ConfigEntries, MaxComps) :
        \E s \in Splits(f), m \in 0..MaxMonitors, d \in ConfigDefaults :
            config = Config(f, s, m, d) /\ InitRest

(***************************************************************************)
(* Bar::load                                                               *)
(***************************************************************************)
\* serde_fmt::from_str: deserialize_monitors rejects an empty monitor list,
\* the colours go through Color::from_str; when several fields fail, the
\* order of the keys in the document decides which failure is met first
LoadParse ==
    /\ loadState = "parse"
    /\ loadState' \in IF ParseFailures(config) = {} THEN {"convert"}
                      ELSE ParseFailures(config)
    /\ lastOp' = "load"
    /\ UNCHANGED <<config, built, left, center, right, general, COMPONENT_INDEX,
                   allocLog, otherAllocs, pc, result, updates, notifies>>
    /\ UNCHANGED pipeVars

\* the convert closure without `c.settings.fallback(&defaults)`
LoadConvertNoFallback ==
    /\ loadState = "convert"
    /\ Len(built) < Len(FlatConfig(config))
    /\ \E own \in {ParseSettings(FlatConfig(config)[Len(built) + 1].settings)} :
       LET c == FlatConfig(config)[Len(built) + 1]
           e == [c EXCEPT !.settings = own]
           r == fetch_add(COMPONENT_INDEX)
       IN  /\ COMPONENT_INDEX' = r.new
           /\ allocLog' = Append(allocLog, [by |-> "load", value |-> r.ret])
           /\ IF ExtraDeserializes(e)
              THEN /\ built' = Append(built, Create(e, r.ret))
                   /\ loadState' = loadState
              ELSE /\ built' = built
                   /\ loadState' = "panic"
    /\ UNCHANGED <<config, left, center, right, general, otherAllocs>>
    /\ UNCHANGED pipeVars
    /\ UNCHANGED callVars

\* one iteration of the convert closure: the settings fall back to the
\* defaults, c.into() allocates the ID and then unwraps the deserialized Extra
LoadConvert ==
    /\ loadState = "convert"
    /\ Len(built) < Len(FlatConfig(config))
    /\ \E own \in {ParseSettings(FlatConfig(config)[Len(built) + 1].settings)},
          defaults \in {ParseSettings(config.defaults)} :
       LET c == FlatConfig(config)[Len(built) + 1]
           e == [c EXCEPT !.settings = fallback(own, defaults)]
           r == fetch_add(COMPONENT_INDEX)
       IN  /\ COMPONENT_INDEX' = r.new
           /\ allocLog' = Append(allocLog, [by |-> "load", value |-> r.ret])
           /\ IF ExtraDeserializes(e)
              THEN /\ built' = Append(built, Create(e, r.ret))
                   /\ loadState' = loadState
              ELSE /\ built' = built
                   /\ loadState' = "panic"
    /\ UNCHANGED <<config, left, center, right, general, otherAllocs>>
    /\ UNCHANGED pipeVars
    /\ UNCHANGED callVars

\* a load() that converts the right list first and the left list last
LoadFinishRightFirst ==
    /\ loadState = "convert"
    /\ Len(built) = Len(FlatConfig(config))
    /\ right' = SubSeq(built, 1, Len(config.right))
    /\ center' = SubSeq(built, Len(config.right) + 1, Len(config.right) + Len(config.center))
    /\ left' = SubSeq(built, Len(config.right) + Len(config.center) + 1, Len(built))
    /\ general' = <<[monitors |-> config.monitors]>>
    /\ loadState' = "ok"
    /\ events' = FALSE
    /\ UNCHANGED <<config, built, COMPONENT_INDEX, allocLog, otherAllocs>>
    /\ UNCHANGED <<chan, senders, worker, timers, spawned, time>>
    /\ UNCHANGED callVars

\* the General built from the parsed document
General(c) == [monitors |-> c.monitors]

\* Ok(Self { general, left, center, right, events: None })
LoadFinish ==
    /\ loadState = "convert"
    /\ Len(built) = Len(FlatConfig(config))
    /\ left' = SubSeq(built, 1, Len(config.left))
    /\ center' = SubSeq(built, Len(config.left) + 1, Len(config.left) + Len(config.center))
    /\ right' = SubSeq(built, Len(config.left) + Len(config.center) + 1, Len(built))
    /\ general' = <<General(config)>>
    /\ loadState' = "ok"
    /\ events' = FALSE
    /\ UNCHANGED <<config, built, COMPONENT_INDEX, allocLog, otherAllocs>>
    /\ UNCHANGED <<chan, senders, worker, timers, spawned, time>>
    /\ UNCHANGED callVars

\* another thread of the process calls ComponentID::default() (it creates a
\* component of its own) while this Bar is being loaded
OtherAlloc ==
    /\ otherAllocs < MaxOtherAllocs
    /\ loadState \in {"parse", "convert"}
    /\ LET r == fetch_add(COMPONENT_INDEX)
       IN  /\ COMPONENT_INDEX' = r.new
           /\ allocLog' = Append(allocLog, [by |-> "other", value |-> r.ret])
    /\ otherAllocs' = otherAllocs + 1
    /\ UNCHANGED loadVars
    /\ UNCHANGED pipeVars
    /\ UNCHANGED callVars

(***************************************************************************)
(* Bar::start_loop, the worker thread and the timer.                       *)
(***************************************************************************)
\* an Interval whose first tick is due at once
NewTimerImmediate(comp) ==
    [live |-> ComponentTrait(comp).stream,
     next |-> IF ComponentTrait(comp).stream THEN IntervalOf(comp) ELSE 0,
     due |-> IF ComponentTrait(comp).stream THEN 1 ELSE 0,
     err |-> FALSE]

\* the Interval of a fresh Clock stream: first tick one period from now
NewTimer(comp) ==
    [live |-> ComponentTrait(comp).stream,
     next |-> IF ComponentTrait(comp).stream THEN IntervalOf(comp) ELSE 0,
     due |-> 0,
     err |-> FALSE]

\* the elapsed-time record at the moment the streams are created: the
\* Intervals count from Instant::now(), no tick has fired yet
StartTime ==
    [now |-> time.now, startAt |-> time.now,
     fired |-> [i \in DOMAIN components |-> 0]]

\* start_loop without the clone: the only Sender moves into the worker
start_loop_no_clone ==
    /\ chan' = <<>>
    /\ senders' = 1
    /\ timers' = [i \in DOMAIN components |-> NewTimer(components[i])]
    /\ worker' = "running"
    /\ spawned' = spawned + 1
    /\ time' = StartTime

\* Bar::start_loop: mpsc::channel(), the clone kept by the Bar, the combined
\* stream of every component's stream(), thread::spawn of the worker
start_loop ==
    /\ chan' = <<>>
    /\ senders' = 2
    /\ timers' = [i \in DOMAIN components |-> NewTimer(components[i])]
    /\ worker' = "running"
    /\ spawned' = spawned + 1
    /\ time' = StartTime

\* the pair returned by start_loop() is not stored in self.events
EnsureStartedNotStored ==
    IF events
    THEN UNCHANGED pipeVars
    ELSE events' = FALSE /\ start_loop

\* start_loop() called by every poll
EnsureStartedAlways == events' = TRUE /\ start_loop

\* `if self.events.is_none() { self.events = Some(self.start_loop()); }`
EnsureStarted ==
    IF events
    THEN UNCHANGED pipeVars
    ELSE events' = TRUE /\ start_loop

LiveTimers == {i \in DOMAIN timers : timers[i].live}

\* one unit of time passes for every Interval of the combined stream
Tick ==
    /\ worker = "running"
    /\ LiveTimers # {}
    /\ \A i \in LiveTimers : timers[i].due < MaxDue
    /\ timers' = [i \in DOMAIN timers |->
                    IF ~timers[i].live THEN timers[i]
                    ELSE IF timers[i].next = 1
                         THEN [timers[i] EXCEPT !.next = IntervalOf(components[i]),
                                                !.due = @ + 1]
                         ELSE [timers[i] EXCEPT !.next = @ - 1]]
    /\ UNCHANGED <<events, chan, senders, worker, spawned, time>>
    /\ UNCHANGED loadVars
    /\ UNCHANGED callVars
    /\ UNCHANGED <<COMPONENT_INDEX, allocLog, otherAllocs>>

\* a worker that calls update() on the component and sends the ID only when
\* update() returned true
WorkerForwardUpdating(i) ==
    /\ worker = "running"
    /\ i \in LiveTimers
    /\ timers[i].due > 0
    /\ Len(chan) < MaxQueue
    /\ LET u == update_component(components[i].id)
       IN  /\ updates' = Append(updates, [id |-> u.on, ret |-> u.ret])
           /\ chan' = IF u.ret
                      THEN Append(chan, [id |-> components[i].id, src |-> "worker"])
                      ELSE chan
    /\ timers' = [timers EXCEPT ![i].due = @ - 1]
    /\ UNCHANGED <<events, senders, worker, spawned, time>>
    /\ UNCHANGED loadVars
    /\ UNCHANGED <<pc, result, notifies, lastOp>>
    /\ UNCHANGED <<COMPONENT_INDEX, allocLog, otherAllocs>>

\* a worker that drops an ID that is already waiting in the channel
WorkerForwardCoalescing(i) ==
    /\ worker = "running"
    /\ i \in LiveTimers
    /\ timers[i].due > 0
    /\ Len(chan) < MaxQueue
    /\ chan' = IF \E k \in DOMAIN chan : chan[k].id = components[i].id
               THEN chan
               ELSE Append(chan, [id |-> components[i].id, src |-> "worker"])
    /\ timers' = [timers EXCEPT ![i].due = @ - 1]
    /\ UNCHANGED <<events, senders, worker, spawned, time>>
    /\ UNCHANGED loadVars
    /\ UNCHANGED callVars
    /\ UNCHANGED <<COMPONENT_INDEX, allocLog, otherAllocs>>

\* a send that waits until a poll is in progress (a rendezvous channel)
WorkerForwardRendezvous(i) ==
    /\ worker = "running"
    /\ i \in LiveTimers
    /\ timers[i].due > 0
    /\ Len(chan) < MaxQueue
    /\ pc \in {"recv", "try_recv"}
    /\ chan' = Append(chan, [id |-> components[i].id, src |-> "worker"])
    /\ timers' = [timers EXCEPT ![i].due = @ - 1]
    /\ UNCHANGED <<events, senders, worker, spawned, time>>
    /\ UNCHANGED loadVars
    /\ UNCHANGED callVars
    /\ UNCHANGED <<COMPONENT_INDEX, allocLog, otherAllocs>>

\* a combined stream that is the first component's stream only
WorkerForwardFirstStream(i) ==
    /\ worker = "running"
    /\ i \in LiveTimers
    /\ i = Min(LiveTimers)
    /\ timers[i].due > 0
    /\ Len(chan) < MaxQueue
    /\ chan' = Append(chan, [id |-> components[i].id, src |-> "worker"])
    /\ timers' = [timers EXCEPT ![i].due = @ - 1]
    /\ UNCHANGED <<events, senders, worker, spawned, time>>
    /\ UNCHANGED loadVars
    /\ UNCHANGED callVars
    /\ UNCHANGED <<COMPONENT_INDEX, allocLog, otherAllocs>>

\* the worker takes the next ID of the combined stream (any constituent stream
\* with a tick due) and sends it: `events_tx.send(comp_id).unwrap()`
WorkerForward(i) ==
    /\ worker = "running"
    /\ i \in LiveTimers
    /\ timers[i].due > 0
    /\ Len(chan) < MaxQueue
    /\ chan' = Append(chan, [id |-> components[i].id, src |-> "worker"])
    /\ timers' = [timers EXCEPT ![i].due = @ - 1]
    /\ UNCHANGED <<events, senders, worker, spawned, time>>
    /\ UNCHANGED loadVars
    /\ UNCHANGED callVars
    /\ UNCHANGED <<COMPONENT_INDEX, allocLog, otherAllocs>>

\* a worker thread whose end closes the channel: no Sender is left
WorkerExitClosing ==
    /\ worker = "running"
    /\ LiveTimers = {}
    /\ worker' = "done"
    /\ senders' = 0
    /\ UNCHANGED <<events, chan, timers, spawned, time>>
    /\ UNCHANGED loadVars
    /\ UNCHANGED callVars
    /\ UNCHANGED <<COMPONENT_INDEX, allocLog, otherAllocs>>

\* a worker thread that may finish while a constituent stream is live
WorkerExitAnyTime ==
    /\ worker = "running"
    /\ worker' = "done"
    /\ senders' = senders - 1
    /\ UNCHANGED <<events, chan, timers, spawned, time>>
    /\ UNCHANGED loadVars
    /\ UNCHANGED callVars
    /\ UNCHANGED <<COMPONENT_INDEX, allocLog, otherAllocs>>

\* time passes between load() and the first poll: no stream exists yet
Wait ==
    /\ loadState = "ok"
    /\ ~events
    /\ time.now < MaxWait
    /\ time' = [time EXCEPT !.now = @ + 1]
    /\ UNCHANGED <<events, chan, senders, worker, timers, spawned>>
    /\ UNCHANGED loadVars
    /\ UNCHANGED callVars
    /\ UNCHANGED <<COMPONENT_INDEX, allocLog, otherAllocs>>

\* time passes up to the next deadline of the combined stream, with the
\* elapsed time tracked: Tick taken as many times as the nearest deadline
\* is away
Jump ==
    /\ worker = "running"
    /\ LiveTimers # {}
    /\ \A i \in LiveTimers : timers[i].due < MaxDue /\ time.fired[i] < MaxFired
    /\ LET d == Min({timers[i].next : i \in LiveTimers})
       IN  /\ timers' = [i \in DOMAIN timers |->
                            IF ~timers[i].live THEN timers[i]
                            ELSE IF timers[i].next = d
                                 THEN [timers[i] EXCEPT !.next = IntervalOf(components[i]),
                                                        !.due = @ + 1]
                                 ELSE [timers[i] EXCEPT !.next = @ - d]]
           /\ time' = [time EXCEPT
                          !.now = @ + d,
                          !.fired = [i \in DOMAIN timers |->
                                        IF timers[i].live /\ timers[i].next = d
                                        THEN time.fired[i] + 1 ELSE time.fired[i]]]
    /\ UNCHANGED <<events, chan, senders, worker, spawned>>
    /\ UNCHANGED loadVars
    /\ UNCHANGED callVars
    /\ UNCHANGED <<COMPONENT_INDEX, allocLog, otherAllocs>>

\* the Interval of the i-th component yields an error (the tokio timer is shut
\* down or at capacity): map_err passes it on as (), select and for_each end
\* with it, tokio::run returns, the thread finishes, and the combined stream
\* and events_tx are dropped with the closure
TimerError(i) ==
    /\ worker = "running"
    /\ i \in LiveTimers
    /\ timers' = [j \in DOMAIN timers |->
                    [timers[j] EXCEPT !.live = FALSE, !.err = (j = i)]]
    /\ worker' = "done"
    /\ senders' = senders - 1
    /\ UNCHANGED <<events, chan, spawned, time>>
    /\ UNCHANGED loadVars
    /\ UNCHANGED callVars
    /\ UNCHANGED <<COMPONENT_INDEX, allocLog, otherAllocs>>

\* the combined stream ends when every constituent stream has ended: tokio::run
\* returns, the thread finishes and its closure drops events_tx
WorkerExit ==
    /\ worker = "running"
    /\ LiveTimers = {}
    /\ worker' = "done"
    /\ senders' = senders - 1
    /\ UNCHANGED <<events, chan, timers, spawned, time>>
    /\ UNCHANGED loadVars
    /\ UNCHANGED callVars
    /\ UNCHANGED <<COMPONENT_INDEX, allocLog, otherAllocs>>

(***************************************************************************)
(* Bar::recv, Bar::try_recv, Bar::notify on the caller thread.             *)
(***************************************************************************)
\* Receiver::recv / try_recv fail with a disconnected channel only when the
\* buffer is empty and no Sender is left
Disconnected == chan = <<>> /\ senders = 0

\* a recv() that applies the fallback merge to every component again
CallRecvRemerging ==
    /\ loadState = "ok"
    /\ pc = "idle"
    /\ EnsureStarted
    /\ pc' = "recv"
    /\ result' = EnteredResult
    /\ updates' = <<>>
    /\ notifies' = <<>>
    /\ lastOp' = "recv"
    /\ \E defaults \in {ParseSettings(config.defaults)} :
          LET remerge(list) ==
                  [i \in DOMAIN list |->
                      [list[i] EXCEPT !.settings = fallback(@, defaults)]]
          IN  /\ left' = remerge(left)
              /\ center' = remerge(center)
              /\ right' = remerge(right)
    /\ UNCHANGED <<config, loadState, built, general>>
    /\ UNCHANGED <<COMPONENT_INDEX, allocLog, otherAllocs>>

\* Bar::recv up to its loop
CallRecv ==
    /\ loadState = "ok"
    /\ pc = "idle"
    /\ EnsureStarted
    /\ pc' = "recv"
    /\ result' = EnteredResult
    /\ updates' = <<>>
    /\ notifies' = <<>>
    /\ lastOp' = "recv"
    /\ UNCHANGED loadVars
    /\ UNCHANGED <<COMPONENT_INDEX, allocLog, otherAllocs>>

\* a recv() that takes the end of the worker thread for the end of the channel
RecvStepUntilWorkerDone ==
    /\ pc = "recv"
    /\ chan # <<>> \/ Disconnected \/ worker = "done"
    /\ IF chan # <<>>
       THEN LET comp_id == Head(chan).id
                u == update_component(comp_id)
            IN  /\ chan' = Tail(chan)
                /\ updates' = IF u.on = -1 THEN updates
                              ELSE Append(updates, [id |-> u.on, ret |-> u.ret])
                /\ IF u.ret
                   THEN pc' = "idle" /\ result' = SomeResult(comp_id)
                   ELSE pc' = pc /\ result' = result
       ELSE /\ pc' = "panicked"
            /\ UNCHANGED <<chan, updates, result>>
    /\ UNCHANGED <<events, senders, worker, timers, spawned, time, notifies, lastOp>>
    /\ UNCHANGED loadVars
    /\ UNCHANGED <<COMPONENT_INDEX, allocLog, otherAllocs>>

\* a recv() that takes the newest ID of the channel in place of the oldest
RecvStepNewestFirst ==
    /\ pc = "recv"
    /\ chan # <<>> \/ Disconnected
    /\ IF chan # <<>>
       THEN LET comp_id == chan[Len(chan)].id
                u == update_component(comp_id)
            IN  /\ chan' = SubSeq(chan, 1, Len(chan) - 1)
                /\ updates' = IF u.on = -1 THEN updates
                              ELSE Append(updates, [id |-> u.on, ret |-> u.ret])
                /\ IF u.ret
                   THEN pc' = "idle" /\ result' = SomeResult(comp_id)
                   ELSE pc' = pc /\ result' = result
       ELSE /\ pc' = "panicked"
            /\ UNCHANGED <<chan, updates, result>>
    /\ UNCHANGED <<events, senders, worker, timers, spawned, time, notifies, lastOp>>
    /\ UNCHANGED loadVars
    /\ UNCHANGED <<COMPONENT_INDEX, allocLog, otherAllocs>>

\* one iteration of recv()'s loop; it waits while the channel is empty and
\* connected
RecvStep ==
    /\ pc = "recv"
    /\ chan # <<>> \/ Disconnected
    /\ IF chan # <<>>
       THEN LET comp_id == Head(chan).id
                u == update_component(comp_id)
            IN  /\ chan' = Tail(chan)
                /\ updates' = IF u.on = -1 THEN updates
                              ELSE Append(updates, [id |-> u.on, ret |-> u.ret])
                /\ IF u.ret
                   THEN pc' = "idle" /\ result' = SomeResult(comp_id)
                   ELSE pc' = pc /\ result' = result
       ELSE /\ pc' = "panicked"
            /\ UNCHANGED <<chan, updates, result>>
    /\ UNCHANGED <<events, senders, worker, timers, spawned, time, notifies, lastOp>>
    /\ UNCHANGED loadVars
    /\ UNCHANGED <<COMPONENT_INDEX, allocLog, otherAllocs>>

CallTryRecv ==
    /\ loadState = "ok"
    /\ pc = "idle"
    /\ EnsureStarted
    /\ pc' = "try_recv"
    /\ result' = EnteredResult
    /\ updates' = <<>>
    /\ notifies' = <<>>
    /\ lastOp' = "try_recv"
    /\ UNCHANGED loadVars
    /\ UNCHANGED <<COMPONENT_INDEX, allocLog, otherAllocs>>

\* a try_recv() that reports an empty queue without looking into it
TryRecvStepPeekOnly ==
    /\ pc = "try_recv"
    /\ pc' = "idle"
    /\ result' = NoneResult
    /\ UNCHANGED <<chan, updates>>
    /\ UNCHANGED <<events, senders, worker, timers, spawned, time, notifies, lastOp>>
    /\ UNCHANGED loadVars
    /\ UNCHANGED <<COMPONENT_INDEX, allocLog, otherAllocs>>

\* try_recv() built on the blocking Receiver::recv
TryRecvStepBlocking ==
    /\ pc = "try_recv"
    /\ chan # <<>>
    /\ LET comp_id == Head(chan).id
           u == update_component(comp_id)
       IN  /\ chan' = Tail(chan)
           /\ updates' = IF u.on = -1 THEN updates
                         ELSE Append(updates, [id |-> u.on, ret |-> u.ret])
           /\ IF u.ret
              THEN pc' = "idle" /\ result' = SomeResult(comp_id)
              ELSE pc' = pc /\ result' = result
    /\ UNCHANGED <<events, senders, worker, timers, spawned, time, notifies, lastOp>>
    /\ UNCHANGED loadVars
    /\ UNCHANGED <<COMPONENT_INDEX, allocLog, otherAllocs>>

\* one iteration of try_recv()'s loop
TryRecvStep ==
    /\ pc = "try_recv"
    /\ IF chan # <<>>
       THEN LET comp_id == Head(chan).id
                u == update_component(comp_id)
            IN  /\ chan' = Tail(chan)
                /\ updates' = IF u.on = -1 THEN updates
                              ELSE Append(updates, [id |-> u.on, ret |-> u.ret])
                /\ IF u.ret
                   THEN pc' = "idle" /\ result' = SomeResult(comp_id)
                   ELSE pc' = pc /\ result' = result
       ELSE IF Disconnected
            THEN /\ pc' = "panicked"
                 /\ UNCHANGED <<chan, updates, result>>
            ELSE /\ pc' = "idle"
                 /\ result' = NoneResult
                 /\ UNCHANGED <<chan, updates>>
    /\ UNCHANGED <<events, senders, worker, timers, spawned, time, notifies, lastOp>>
    /\ UNCHANGED loadVars
    /\ UNCHANGED <<COMPONENT_INDEX, allocLog, otherAllocs>>

\* `for comp in self.components_mut() { comp.notify(event) .. }`: the calls
\* made, in order, with what each returned
notify_calls(event) ==
    [i \in DOMAIN components |->
        [id |-> components[i].id, event |-> event,
         ret |-> ComponentTrait(components[i]).notify]]

\* the IDs of the components whose notify(event) returns true, in
\* components_mut() order
dirty_comps(event) ==
    LET dirty == SelectSeq(components, LAMBDA c : ComponentTrait(c).notify)
    IN  [k \in DOMAIN dirty |-> [id |-> dirty[k].id, src |-> "notify"]]

\* a notify() that goes through the left list only
NotifyLeftOnly(event) ==
    /\ loadState = "ok"
    /\ pc = "idle"
    /\ Len(chan) + Len(dirty_comps(event)) <= MaxQueue
    /\ chan' = IF events THEN chan \o dirty_comps(event) ELSE chan
    /\ notifies' = SubSeq(notify_calls(event), 1, Len(left))
    /\ lastOp' = "notify"
    /\ UNCHANGED <<events, senders, worker, timers, spawned, time>>
    /\ UNCHANGED <<pc, result, updates>>
    /\ UNCHANGED loadVars
    /\ UNCHANGED <<COMPONENT_INDEX, allocLog, otherAllocs>>

\* a notify(&self) that a second thread calls while a poll is in progress
NotifyShared(event) ==
    /\ loadState = "ok"
    /\ pc \in {"idle", "recv", "try_recv"}
    /\ Len(chan) + Len(dirty_comps(event)) <= MaxQueue
    /\ chan' = IF events THEN chan \o dirty_comps(event) ELSE chan
    /\ notifies' = notify_calls(event)
    /\ lastOp' = "notify"
    /\ UNCHANGED <<events, senders, worker, timers, spawned, time>>
    /\ UNCHANGED <<pc, result, updates>>
    /\ UNCHANGED loadVars
    /\ UNCHANGED <<COMPONENT_INDEX, allocLog, otherAllocs>>

\* a notify() that starts the pipeline to deliver its IDs
NotifyStarting(event) ==
    /\ loadState = "ok"
    /\ pc = "idle"
    /\ Len(chan) + Len(dirty_comps(event)) <= MaxQueue
    /\ IF events
       THEN /\ chan' = chan \o dirty_comps(event)
            /\ UNCHANGED <<events, senders, worker, timers, spawned, time>>
       ELSE /\ events' = TRUE
            /\ senders' = 2
            /\ worker' = "running"
            /\ timers' = [i \in DOMAIN components |-> NewTimer(components[i])]
            /\ spawned' = spawned + 1
            /\ time' = StartTime
            /\ chan' = dirty_comps(event)
    /\ notifies' = notify_calls(event)
    /\ lastOp' = "notify"
    /\ UNCHANGED <<pc, result, updates>>
    /\ UNCHANGED loadVars
    /\ UNCHANGED <<COMPONENT_INDEX, allocLog, otherAllocs>>

\* Bar::notify(event)
Notify(event) ==
    /\ loadState = "ok"
    /\ pc = "idle"
    /\ Len(chan) + Len(dirty_comps(event)) <= MaxQueue
    /\ chan' = IF events THEN chan \o dirty_comps(event) ELSE chan
    /\ notifies' = notify_calls(event)
    /\ lastOp' = "notify"
    /\ UNCHANGED <<events, senders, worker, timers, spawned, time>>
    /\ UNCHANGED <<pc, result, updates>>
    /\ UNCHANGED loadVars
    /\ UNCHANGED <<COMPONENT_INDEX, allocLog, otherAllocs>>

Next ==
    \/ LoadParse
    \/ LoadConvert
    \/ LoadFinish
    \/ OtherAlloc
    \/ Tick
    \/ \E i \in DOMAIN timers : WorkerForward(i)
    \/ WorkerExit
    \/ CallRecv
    \/ RecvStep
    \/ CallTryRecv
    \/ TryRecvStep
    \/ \E event \in Events : Notify(event)

Spec == Init /\ [][Next]_vars

\* Bar::load alone, with the other thread allocating ComponentIDs meanwhile
NextLoad ==
    \/ LoadParse
    \/ LoadConvert
    \/ LoadFinish
    \/ OtherAlloc

SpecLoad == Init /\ [][NextLoad]_vars

\* load() on its own
NextConvert ==
    \/ LoadParse
    \/ LoadConvert
    \/ LoadFinish

\* load() of the documents that vary the settings and the defaults
InitSettings ==
    \E f \in SeqsUpTo(SettingsEntries, MaxComps) :
        \E s \in Splits(f), m \in 1..MaxMonitors, d \in SettingsDefaults :
            config = Config(f, s, m, d) /\ InitRest
SpecSettings == InitSettings /\ [][NextConvert]_vars

\* load() of the documents of one entry that has any of the scalar fields
\* present and any of the font lists, with defaults that set no, one or
\* every scalar field and any of the default font lists
InitMerge ==
    \E S \in SUBSET (DOMAIN NoSettings \ {"fonts"}), d \in SettingsDefaults :
        \E fo \in OwnFontLists, fd \in DefaultFontLists :
            /\ config = MergeConfig(Masked(FullSettings, S, fo),
                                    [d EXCEPT !.fonts = fd])
            /\ InitRest
SpecMerge == InitMerge /\ [][NextConvert]_vars

\* Clock entries with a configured interval and with none
ScheduleEntries ==
    {[name |-> "clock", interval |-> i, text |-> "absent", settings |-> WidthSettings] :
        i \in (1..MaxInterval) \cup {NoInterval}}

\* a Bar of Clocks with the elapsed time tracked: time passes before the
\* first poll and from deadline to deadline after it
InitClock ==
    \E f \in SeqsUpTo(ScheduleEntries, MaxComps) \ {<<>>} :
        config = Config(f, <<Len(f), Len(f)>>, 1, WidthDefaults) /\ InitRest

NextClock ==
    \/ LoadParse
    \/ LoadConvert
    \/ LoadFinish
    \/ Wait
    \/ Jump
    \/ \E i \in DOMAIN timers : WorkerForward(i)
    \/ CallRecv
    \/ RecvStep
    \/ CallTryRecv
    \/ TryRecvStep

SpecClock == InitClock /\ [][NextClock]_vars

\* load() of the documents that vary one colour string: up to MaxChunks
\* pieces, with and without the leading '#'
InitColor ==
    \E prefix \in {<<35>>, <<>>}, ss \in SeqsUpTo(ColorChunks, MaxChunks) :
        config = ColorConfig(prefix \o Concat(ss)) /\ InitRest
SpecColor == InitColor /\ [][NextConvert]_vars

\* Clock entries with a valid interval
FanInEntries == {e \in ClockEntries : e.interval # BadInterval}

\* a Bar of Clocks only, as many as a document holds, polled with recv()
InitFanIn ==
    \E f \in [1..MaxComps -> FanInEntries] :
        \E s \in Splits(f) :
            config = Config(f, s, 1, WidthDefaults) /\ InitRest

NextFanIn ==
    \/ LoadParse
    \/ LoadConvert
    \/ LoadFinish
    \/ Tick
    \/ \E i \in DOMAIN timers : WorkerForward(i)
    \/ CallRecv
    \/ RecvStep

\* The channel is unbounded and time does not stop: the send of a due tick
\* and the passing of time are held up only by the bounds of this model, so
\* each happens if it is possible again and again; recv() runs to its end.
FairSpecFanIn ==
    /\ InitFanIn /\ [][NextFanIn]_vars
    /\ WF_vars(RecvStep)
    /\ SF_vars(Tick)
    /\ \A i \in 1..MaxComps : SF_vars(WorkerForward(i))

\* a Bar of Clocks whose Intervals may yield an error
NextTimerError ==
    \/ LoadParse
    \/ LoadConvert
    \/ LoadFinish
    \/ Tick
    \/ \E i \in DOMAIN timers : WorkerForward(i)
    \/ \E i \in DOMAIN timers : TimerError(i)
    \/ CallRecv
    \/ RecvStep
    \/ CallTryRecv
    \/ TryRecvStep

SpecTimerError == InitFanIn /\ [][NextTimerError]_vars

\* The caller runs a method it has entered to its end, the worker thread and
\* the timer are scheduled fairly.
FairSpec ==
    /\ Spec
    /\ WF_vars(RecvStep)
    /\ WF_vars(TryRecvStep)
    /\ WF_vars(Tick)
    /\ \A i \in 1..MaxComps : WF_vars(WorkerForward(i))
    /\ WF_vars(WorkerExit)

(***************************************************************************)
(* Properties.                                                             *)
(***************************************************************************)
UndynamicIds ==
    {components[i].id : i \in {j \in DOMAIN components : components[j].kind = "Undynamic"}}

\* C1: an ID returned by recv() or try_recv() is the ID of a component of this
\* Bar, and during that poll call (after the previous poll had returned)
\* update() was called on that very component and returned true.
PollReturnsUpdatedComponent ==
    (pc = "idle" /\ result.kind = "id") =>
        /\ result.id \in ComponentIds
        /\ \E k \in DOMAIN updates : updates[k] = [id |-> result.id, ret |-> TRUE]

\* C1 witness: try_recv() returned Some(id) on a Bar with two components.
PollReturnedAnId ==
    /\ pc = "idle"
    /\ lastOp = "try_recv"
    /\ result.kind = "id"
    /\ Len(components) = 2

\* C2: try_recv() never blocks: whenever the caller is inside try_recv() its
\* next loop iteration can run, under fair scheduling the call returns, and on
\* a Bar none of whose components ever updates (no Clock) the call has started
\* the pipeline and returns None.
TryRecvNeverBlocks ==
    /\ [](pc = "try_recv" => ENABLED TryRecvStep)
    /\ (pc = "try_recv") ~> (pc = "idle" /\ lastOp = "try_recv")
    /\ [][(pc = "try_recv" /\ pc' # "try_recv" /\ ClockIds = {}) =>
            (pc' = "idle" /\ result' = NoneResult' /\ events')]_vars

\* C2 witness: try_recv() was the first call on a loaded Bar without a Clock
\* and has returned None with the pipeline started.
TryRecvReturnedEmptyOnQuietBar ==
    /\ pc = "idle"
    /\ lastOp = "try_recv"
    /\ result.kind = "empty"
    /\ events
    /\ ClockIds = {}
    /\ components # <<>>

\* C3: on a Bar with at least one Clock, a recv() in progress eventually
\* returns, and what it returns is the ID of a Clock of this Bar.
RecvEventuallyReturnsClock ==
    (pc = "recv" /\ ClockIds # {}) ~>
        (pc = "idle" /\ lastOp = "recv" /\ result.kind = "id" /\ result.id \in ClockIds)

\* C3 witness: recv() has returned the ID of a Clock.
RecvReturnedClock ==
    /\ pc = "idle"
    /\ lastOp = "recv"
    /\ result.kind = "id"
    /\ result.id \in ClockIds

\* C5: an Undynamic component's ID is never sent into the channel (its stream
\* never fires, its notify() returns false), never passes update() and so is
\* never returned by recv() or try_recv().
UndynamicNeverDelivered ==
    /\ \A k \in DOMAIN chan : chan[k].id \notin UndynamicIds
    /\ \A k \in DOMAIN updates : updates[k].id \in UndynamicIds => ~updates[k].ret
    /\ result.kind = "id" => result.id \notin UndynamicIds

\* C5 witness: a Bar with an Undynamic and a Clock component was notified with
\* the pipeline running while a Clock ID waited in the channel, after a poll
\* had returned an ID.
UndynamicBarPolledAndNotified ==
    /\ UndynamicIds # {}
    /\ lastOp = "notify"
    /\ events
    /\ chan # <<>>
    /\ result.kind = "id"

ChannelCreatedByFirstCall ==
    /\ lastOp = "load" => ~events
    /\ lastOp \in {"recv", "try_recv", "notify"} => events

\* C7 (amended): the channel pair does not exist after load, exists after a
\* recv() or try_recv() has been entered, and only the entry of recv() or
\* try_recv() on a Bar without a channel creates it; notify() never does.
ChannelCreatedByFirstPoll ==
    /\ [](lastOp \in {"none", "load"} => ~events)
    /\ [](lastOp \in {"recv", "try_recv"} => events)
    /\ [][events' # events =>
            (~events /\ pc = "idle" /\ pc' \in {"recv", "try_recv"})]_vars

\* C7 witness: the first poll has just been entered: the channel exists, is
\* empty, and every Interval of the combined stream is fresh.
FirstPollCreatedChannel ==
    /\ events
    /\ pc \in {"recv", "try_recv"}
    /\ worker = "running"
    /\ chan = <<>>
    /\ \A i \in LiveTimers : timers[i].due = 0 /\ timers[i].next = IntervalOf(components[i])

\* C8 (as stated): a try_recv() that returns after the worker has terminated
\* does not return None.
TryRecvAfterWorkerExitNotNone ==
    (pc = "idle" /\ lastOp = "try_recv" /\ result.seen = "done") => result.kind # "empty"

\* C8 (amended): the Bar keeps a Sender of its own, so the channel stays
\* connected when the worker has terminated: try_recv() never meets the
\* channel-closed condition (which it would surface as a panic, not as None),
\* and a try_recv() that returns after the worker has terminated returns None.
TryRecvAfterWorkerExitIsNone ==
    /\ pc # "panicked"
    /\ events => senders >= 1
    /\ (pc = "idle" /\ lastOp = "try_recv" /\ result.seen = "done") => result.kind = "empty"

\* C8 witness: try_recv() returned None after the worker had terminated.
TryRecvReturnedAfterWorkerExit ==
    /\ pc = "idle"
    /\ lastOp = "try_recv"
    /\ result.seen = "done"
    /\ result.kind = "empty"

\* C9: the values returned by ComponentID::default(), over all threads, are
\* pairwise distinct and increase in the order of allocation, the first is 0,
\* and no two components carry the same ID.
AllocationUniqueIncreasing ==
    /\ \A i, j \in DOMAIN allocLog : i < j => allocLog[i].value < allocLog[j].value
    /\ allocLog # <<>> => allocLog[1].value = 0
    /\ \A i, j \in DOMAIN built : i # j => built[i].id # built[j].id
    /\ \A i \in DOMAIN built : \A k \in DOMAIN allocLog :
          allocLog[k].by = "other" => built[i].id # allocLog[k].value

\* C9 witness: the other thread allocated between two allocations of load().
InterleavedAllocations ==
    /\ Len(allocLog) = 3
    /\ allocLog[1].by = "load"
    /\ allocLog[2].by = "other"
    /\ allocLog[3].by = "load"
    /\ Len(built) = 2

\* an entry of the document whose variant-specific field is invalid for the
\* variant its name selects
HasInvalidExtra(c) ==
    \E k \in DOMAIN FlatConfig(c) : ~ExtraDeserializes(FlatConfig(c)[k])

\* C10 (as stated): load() of a document with an invalid variant-specific field
\* ends with the invalid-data error: it neither panics nor produces a Bar.
InvalidExtraIsLoadError ==
    (HasInvalidExtra(config) /\ loadState \in {"ok", "invalid_data", "panic"}) =>
        loadState = "invalid_data"

(***************************************************************************)
(* The outcome of load().                                                  *)
(***************************************************************************)
LoadReturned == loadState \in {"ok", "invalid_data", "panic"}

\* every colour of the document is well-formed
ColorsValid(c) == \A str \in DocColors(c) : from_str(str).kind = "ok"

ScalarFields ==
    {"foreground", "background", "width", "padding", "offset_x", "offset_y", "border"}

\* C12: every component load() builds has, for each scalar field, its own
\* value when it has one and the bar-wide default otherwise, and as fonts its
\* own fonts followed by the default fonts.
FallbackMergeAtLoad ==
    /\ \A i \in DOMAIN built :
          LET own == FlatConfig(config)[i].settings
              def == config.defaults
          IN  /\ \A f \in ScalarFields :
                    built[i].settings[f] = IF own[f] # <<>> THEN ParseField(f, own[f])
                                           ELSE ParseField(f, def[f])
              /\ built[i].settings.fonts = own.fonts \o def.fonts
    /\ loadState = "ok" => components = built

InheritedAndOwnWidthLoaded ==
    /\ loadState = "ok"
    /\ config.defaults = FullDefaults
    /\ \E i, j \in DOMAIN components :
          /\ FlatConfig(config)[i].settings.width = <<>>
          /\ components[i].settings.width = <<100>>
          /\ FlatConfig(config)[j].settings.width = <<99>>
          /\ components[j].settings.width = <<99>>
          /\ components[j].settings.fonts = <<"primary", "bold", "font", "mono">>

\* C13: an entry named "clock" becomes a Clock, an entry with any other name
\* or with no name becomes an Undynamic, and whenever load() fails the cause
\* is the monitor list, a colour or a variant-specific field, never a name.
VariantDispatch ==
    /\ \A i \in DOMAIN built :
          built[i].kind = IF FlatConfig(config)[i].name = "clock"
                          THEN "Clock" ELSE "Undynamic"
    /\ (LoadReturned /\ loadState # "ok") =>
          \/ config.monitors = 0
          \/ ~ColorsValid(config)
          \/ \E i \in DOMAIN FlatConfig(config) :
                LET c == FlatConfig(config)[i]
                IN  \/ c.name = "clock" /\ c.interval = BadInterval
                    \/ c.name # "clock" /\ c.text = "bad"

ClockAndUnknownNameLoaded ==
    /\ loadState = "ok"
    /\ \E i, j \in DOMAIN components :
          /\ FlatConfig(config)[i].name = "clock" /\ components[i].kind = "Clock"
          /\ FlatConfig(config)[j].name = "date" /\ components[j].kind = "Undynamic"

\* the string has the form #RRGGBB or #RRGGBBAA, hex digits of either case
WellFormedColor(str) ==
    /\ Len(str) \in {7, 9}
    /\ str[1] = 35
    /\ \A i \in 2..Len(str) :
          \/ str[i] >= 48 /\ str[i] <= 57
          \/ str[i] >= 65 /\ str[i] <= 70
          \/ str[i] >= 97 /\ str[i] <= 102

\* the value the two hex digits at i and i + 1 encode
HexPair(str, i) == 16 * to_digit(str[i]) + to_digit(str[i + 1])

\* C14 as stated: a well-formed colour string is parsed to exactly the
\* components its hex pairs encode, alpha 255 when there is no fourth pair;
\* every other string is rejected with a parse error, load() returns invalid
\* data and does not abort.
ColorParsedOrRejected ==
    (LoadReturned /\ Len(config.left) = 1 /\ config.left[1].settings.foreground # <<>>) =>
        LET str == config.left[1].settings.foreground[1]
        IN  IF WellFormedColor(str)
            THEN /\ loadState = "ok"
                 /\ components[1].settings.foreground =
                        <<[kind |-> "ok", r |-> HexPair(str, 2), g |-> HexPair(str, 4),
                           b |-> HexPair(str, 6),
                           a |-> IF Len(str) = 9 THEN HexPair(str, 8) ELSE 255]>>
            ELSE loadState = "invalid_data"

(***************************************************************************)
(* The worker, the channel and the clock's schedule.                       *)
(***************************************************************************)
\* the step appends an ID sent by the worker to the channel
WorkerSent ==
    /\ Len(chan') = Len(chan) + 1
    /\ chan'[Len(chan')].src = "worker"

\* the step takes the oldest ID out of the channel
Dequeued == chan # <<>> /\ chan' = Tail(chan)

\* C15 as stated: for each ID the worker takes from the combined stream it
\* calls update() on the component and sends the ID only if update()
\* returned true.
WorkerCallsUpdate ==
    [][WorkerSent =>
          updates' = Append(updates, [id |-> chan'[Len(chan')].id, ret |-> TRUE])]_vars

\* C15, amended: the worker sends every ID of the combined stream without
\* calling update(); update() is called by the poll that takes the ID out of
\* the channel, on the component with that ID, and the poll returns the ID
\* if and only if that update() returned true.
UpdateCalledByPollNotWorker ==
    [][/\ WorkerSent => (updates' = updates /\ chan'[Len(chan')].id \in ClockIds)
       /\ Dequeued =>
             /\ pc \in {"recv", "try_recv"}
             /\ Len(updates') = Len(updates) + 1
             /\ updates'[Len(updates')].id = Head(chan).id
             /\ updates'[Len(updates')].ret <=>
                    (pc' = "idle" /\ result'.kind = "id" /\ result'.id = Head(chan).id)]_vars

UnfilteredIdWaitsAfterReturn ==
    /\ pc = "idle"
    /\ result.kind = "id"
    /\ chan # <<>>
    /\ chan[1].src = "worker"
    /\ Len(updates) = 1

PipelineStartedAtMostOnce ==
    /\ spawned <= 1
    /\ events <=> spawned = 1
    /\ worker = "none" <=> spawned = 0
    /\ lastOp \in {"none", "load"} => spawned = 0
    /\ lastOp \in {"recv", "try_recv"} => spawned = 1

PolledAgainAfterStart ==
    /\ pc \in {"recv", "try_recv"}
    /\ result.kind = "unset"
    /\ result.seen \in {"running", "done"}
    /\ spawned = 1

\* ticks of the i-th component's clock on their way to the caller: due at the
\* worker or waiting in the channel
InFlight(i) ==
    timers[i].due
        + Cardinality({k \in DOMAIN chan :
                          chan[k].id = components[i].id /\ chan[k].src = "worker"})

\* C18: every tick a clock fires after the start is returned by exactly one
\* poll: a step adds one tick in flight only when the clock fires, takes one
\* away only when a poll returns the clock's ID, and ticks that fire before
\* any poll wait in the channel one by one.
NoCoalescingNoLoss ==
    [][\A i \in DOMAIN timers :
          timers[i].live =>
            LET fires == timers[i].next = 1 /\ timers'[i].due = timers[i].due + 1
                returned ==
                    /\ Dequeued
                    /\ Head(chan).src = "worker"
                    /\ Head(chan).id = components[i].id
                    /\ pc' = "idle" /\ result'.kind = "id"
                    /\ result'.id = components[i].id
                dropped ==
                    /\ Dequeued
                    /\ Head(chan).id = components[i].id
                    /\ ~(pc' = "idle" /\ result'.kind = "id")
            IN  /\ ~dropped
                /\ InFlight(i)' = InFlight(i) + (IF fires THEN 1 ELSE 0)
                                              - (IF returned THEN 1 ELSE 0)]_vars

BurstWaitsInChannel ==
    /\ pc = "idle"
    /\ result.kind = "empty"
    /\ Len(chan) = 2
    /\ chan[1] = chan[2]
    /\ chan[1].src = "worker"

\* C19: the clock and the worker do not wait for the caller: whenever a tick
\* is due the worker can send it, and whenever a Clock is live time can pass
\* and fire it, whether or not a poll is in progress or the channel is empty
\* (up to the bounds MaxQueue and MaxDue of this model).
ClockPacedByTime ==
    worker = "running" =>
        \A i \in LiveTimers :
            /\ (\A j \in LiveTimers : timers[j].due < MaxDue) => ENABLED Tick
            /\ (timers[i].due > 0 /\ Len(chan) < MaxQueue) => ENABLED WorkerForward(i)

QueueGrewWhileNotPolled ==
    /\ pc = "idle"
    /\ lastOp = "try_recv"
    /\ result.kind = "empty"
    /\ Len(chan) = MaxQueue
    /\ \A k \in DOMAIN chan : chan[k].src = "worker"
    /\ \E i \in LiveTimers : timers[i].due = MaxDue

\* the period of the i-th entry of the document: the configured interval, or
\* 15000 when the entry has none
ConfiguredPeriod(i) ==
    IF FlatConfig(config)[i].interval = NoInterval THEN 15000
    ELSE FlatConfig(config)[i].interval

\* C20: no tick exists before the pipeline is started, however much time has
\* passed since load(); after the start the i-th clock has fired once per
\* full period elapsed since the start, the first time one period after it,
\* the period being the configured interval or 15000.
ClockSchedule ==
    /\ ~events => (chan = <<>> /\ timers = <<>> /\ time.fired = <<>>)
    /\ events =>
          \A i \in DOMAIN components :
              LET elapsed == time.now - time.startAt
              IN  /\ time.fired[i] = elapsed \div ConfiguredPeriod(i)
                  /\ timers[i].next = ConfiguredPeriod(i) - (elapsed % ConfiguredPeriod(i))
                  /\ InFlight(i) <= time.fired[i]
                  /\ elapsed < ConfiguredPeriod(i) => InFlight(i) = 0

DefaultClockFiredTwice ==
    /\ time.startAt = MaxWait
    /\ \E i \in DOMAIN components :
          /\ FlatConfig(config)[i].interval = NoInterval
          /\ time.fired[i] = 2
          /\ time.now = time.startAt + 30000

(***************************************************************************)
(* Order of the deliveries.                                                *)
(***************************************************************************)
\* the step appends to the channel and keeps what waits there in its order
Appended ==
    /\ Len(chan') > Len(chan)
    /\ SubSeq(chan', 1, Len(chan)) = chan

\* what the step appended to the channel
NewEntries == SubSeq(chan', Len(chan) + 1, Len(chan'))

\* C21: the channel is a queue per producer and as a whole: a step changes
\* it only by appending behind what waits or by a poll taking the oldest ID;
\* the worker appends one tick of a clock that had one due, notify appends
\* the IDs of its dirty components in the order of its calls, and an ID a
\* poll returns is the oldest of the channel; which clock's tick the worker
\* appends next is free among the clocks with a tick due.
PerProducerFifo ==
    [][/\ chan' # chan => (Dequeued \/ Appended)
       /\ Dequeued => pc \in {"recv", "try_recv"}
       /\ (result' # result /\ result'.kind = "id") =>
             (Dequeued /\ result'.id = Head(chan).id)
       /\ (Appended /\ lastOp' = lastOp) =>
             /\ Len(NewEntries) = 1
             /\ NewEntries[1].src = "worker"
             /\ \E i \in DOMAIN timers :
                   /\ timers[i].due > 0
                   /\ timers' = [timers EXCEPT ![i].due = @ - 1]
                   /\ NewEntries[1].id = components[i].id
       /\ (Appended /\ lastOp' # lastOp) =>
             LET dirty == SelectSeq(notifies', LAMBDA n : n.ret)
             IN  NewEntries = [k \in DOMAIN dirty |-> [id |-> dirty[k].id, src |-> "notify"]]
      ]_vars

\* C21 witness: the second clock's ID was returned, and the second clock's
\* next tick waits in the channel before a tick of the first clock.
ProducersInterleaved ==
    /\ Len(components) = 2
    /\ pc = "idle"
    /\ result.kind = "id"
    /\ result.id = components[2].id
    /\ Len(chan) = 2
    /\ chan[1].id = components[2].id
    /\ chan[2].id = components[1].id

(***************************************************************************)
(* Who calls into the components.                                          *)
(***************************************************************************)
\* the step is one of the worker thread or of the timer
WorkerThreadStep ==
    \/ events /\ timers' # timers
    \/ worker = "running" /\ worker' = "done"

\* C22: update() and notify() of the components are called one at a time and
\* by the thread that holds the Bar: update() only by a step of a poll in
\* progress, one call per step, notify() only by Bar::notify while no poll is
\* in progress, and no step of the worker thread or the timer calls either.
UpdateNotifySerialized ==
    [][/\ (updates' # updates /\ updates' # <<>>) =>
             /\ pc \in {"recv", "try_recv"}
             /\ Len(updates') = Len(updates) + 1
             /\ notifies' = notifies
       /\ (notifies' # notifies /\ notifies' # <<>>) =>
             /\ pc = "idle" /\ pc' = "idle"
             /\ updates' = updates
             /\ \A i, j \in DOMAIN notifies' : i # j => notifies'[i].id # notifies'[j].id
       /\ WorkerThreadStep =>
             (updates' = updates /\ notifies' = notifies /\ pc' = pc)
      ]_vars

\* C22 witness: Bar::notify ran between two polls while the worker thread was
\* running with a tick due: a poll has called update(), notify() was called on
\* two components, and an ID waits for the next poll.
NotifiedBetweenPolls ==
    /\ lastOp = "notify"
    /\ Len(notifies) = 2
    /\ updates # <<>>
    /\ worker = "running"
    /\ \E i \in LiveTimers : timers[i].due > 0
    /\ chan # <<>>

(***************************************************************************)
(* Fan-in of the clocks.                                                   *)
(***************************************************************************)
\* C23: in a Bar of two or more Clocks polled by a consumer that keeps
\* calling recv(), every clock's ID is returned by recv() again and again,
\* and every tick that is due is eventually placed on the channel, whatever
\* the intervals.
FanInNoStarvation ==
    \A i \in 1..MaxComps :
        ([]<>(pc = "recv")) =>
            /\ []<>(/\ pc = "idle" /\ lastOp = "recv" /\ result.kind = "id"
                    /\ Len(components) >= i
                    /\ result.id = components[i].id)
            /\ (Len(timers) >= i /\ timers[i].due > 0) ~>
                   (\E k \in DOMAIN chan : Len(components) >= i /\ chan[k].id = components[i].id)

\* C23 witness: two Clocks of different intervals; recv() has returned the
\* ID of the slower one while a tick of the faster one waits in the channel
\* and further ticks of both are due.
BothClocksServed ==
    /\ Len(components) = 2
    /\ IntervalOf(components[1]) < IntervalOf(components[2])
    /\ pc = "idle" /\ lastOp = "recv"
    /\ result.kind = "id" /\ result.id = components[2].id
    /\ chan # <<>> /\ chan[1].id = components[1].id
    /\ timers[1].due > 0 /\ timers[2].due > 0

(***************************************************************************)
(* Errors of a trigger sequence.                                           *)
(***************************************************************************)
\* C24 as stated: when the trigger sequence of one component has yielded an
\* error, the worker keeps running and the trigger sequence of every other
\* Clock stays live, so that its ticks are forwarded and delivered.
ErrorSparesOtherClocks ==
    \A i, j \in DOMAIN timers :
        (timers[i].err /\ j # i /\ components[j].kind = "Clock") =>
            (worker = "running" /\ timers[j].live)

(***************************************************************************)
(* What the polls do with the IDs they take.                               *)
(***************************************************************************)
\* the poll in progress returns with this step
PollReturns == pc \in {"recv", "try_recv"} /\ pc' = "idle"

NotifyStep == lastOp' = "notify" /\ (lastOp # "notify" \/ notifies' # notifies)

\* C26: Bar::notify(event) calls notify(event) once on every component of
\* left, center and right, in that order and with that event, whether or
\* not the pipeline is started, and appends to the channel the IDs of the
\* components whose notify returned true and nothing else; when the pipeline
\* is not started it appends nothing.
NotifyFansOut ==
    [][NotifyStep =>
          /\ Len(notifies') = Len(left) + Len(center) + Len(right)
          /\ \E event \in Events :
                \A i \in DOMAIN notifies' :
                    /\ notifies'[i].id = (left \o center \o right)[i].id
                    /\ notifies'[i].event = event
                    /\ notifies'[i].ret = ComponentTrait(components[i]).notify
          /\ LET dirty == SelectSeq(notifies', LAMBDA n : n.ret)
             IN  chan' = IF events
                         THEN chan \o [k \in DOMAIN dirty |->
                                          [id |-> dirty[k].id, src |-> "notify"]]
                         ELSE chan
          /\ events' = events /\ worker' = worker
      ]_vars

\* C26 witness: Bar::notify was called before any poll on a Bar with one
\* component in left and one in center, and both were notified.
BothListsNotifiedBeforeStart ==
    /\ lastOp = "notify"
    /\ ~events
    /\ Len(left) = 1 /\ Len(center) = 1
    /\ Len(notifies) = 2
    /\ notifies[1].id = left[1].id
    /\ notifies[2].id = center[1].id

(***************************************************************************)
(* The effect of a poll on the components.                                 *)
(***************************************************************************)
\* C27: a poll that takes an ID out of the channel calls update() once, on
\* the one component of the Bar that carries the ID, and changes no
\* component and no list; an ID that no component carries causes no
\* update() call and is dropped, the poll going on without returning it.
DequeueUpdatesOneComponent ==
    [][Dequeued =>
          /\ left' = left /\ center' = center /\ right' = right
          /\ IF Head(chan).id \in ComponentIds
             THEN /\ Cardinality({i \in DOMAIN components :
                                     components[i].id = Head(chan).id}) = 1
                  /\ SubSeq(updates', 1, Len(updates)) = updates
                  /\ Len(updates') = Len(updates) + 1
                  /\ updates'[Len(updates')].id = Head(chan).id
             ELSE /\ updates' = updates
                  /\ pc' = pc
                  /\ result' = result
      ]_vars

\* C27 witness: recv() on a Bar of two Clocks took the ID of the second one:
\* one update() call, on the second component.
SecondClockUpdated ==
    /\ pc = "idle"
    /\ lastOp = "recv"
    /\ Len(components) = 2
    /\ components[1].kind = "Clock"
    /\ updates = <<[id |-> components[2].id, ret |-> TRUE]>>

(***************************************************************************)
(* The Bar after load().                                                   *)
(***************************************************************************)
\* C28: once load() has returned the Bar, no step of recv(), try_recv(),
\* notify(), the worker or the timer changes the general settings, the
\* left, center and right lists (their members, their order, the IDs and the
\* settings of the components), and components() stays left ++ center ++
\* right, which is what load() built.
BarImmutableAfterLoad ==
    [][loadState = "ok" =>
          /\ loadState' = "ok"
          /\ general' = general
          /\ left' = left /\ center' = center /\ right' = right
          /\ components' = left \o center \o right
          /\ components' = built
          /\ \A i \in DOMAIN components :
                /\ components'[i].id = components[i].id
                /\ components'[i].settings = components[i].settings
      ]_vars

\* C28 witness: after a poll that returned an ID, a Bar::notify and with IDs
\* waiting, the Bar of two components still has the general settings of the
\* document and the settings merged at load().
BarUnchangedAfterCalls ==
    /\ loadState = "ok"
    /\ lastOp = "notify"
    /\ result.kind = "id"
    /\ chan # <<>>
    /\ Len(components) = 2
    /\ general = <<General(config)>>
    /\ \A i \in DOMAIN components :
          /\ components[i].settings.width = <<99>>
          /\ components[i].settings.fonts = <<"primary", "font">>

(***************************************************************************)
(* The fallback merge applied again.                                       *)
(***************************************************************************)
\* C29 as stated: merging the settings of a loaded component with the same
\* defaults again yields the same settings.
MergeIdempotent ==
    \A i \in DOMAIN built :
        fallback(built[i].settings, ParseSettings(config.defaults)) = built[i].settings

\* C29, amended: merging again with the same defaults leaves every scalar
\* field as it is and appends the default fonts once more, so the merged
\* settings are reproduced if and only if the default font list is empty.
MergeIdempotentOnScalarsOnly ==
    \A i \in DOMAIN built :
        LET defaults == ParseSettings(config.defaults)
            merged == built[i].settings
            again == fallback(merged, defaults)
        IN  /\ \A f \in ScalarFields : again[f] = merged[f]
            /\ again.fonts = merged.fonts \o defaults.fonts
            /\ again = merged <=> defaults.fonts = <<>>

\* C29 witness: a component with a font of its own and no width was loaded
\* under defaults with a width and two fonts.
MergedWithDefaultFonts ==
    /\ loadState = "ok"
    /\ config.defaults.fonts = <<"font", "mono">>
    /\ config.left[1].settings.width = <<>>
    /\ components[1].settings.width = <<100>>
    /\ components[1].settings.padding = <<>>
    /\ components[1].settings.fonts = <<"primary", "font", "mono">>

(***************************************************************************)
(* The channel.                                                            *)
(***************************************************************************)
\* C30: the channel of a Bar is never disconnected: from the start of the
\* pipeline on the Bar holds the Receiver and a Sender of its own, the worker
\* holds the other Sender until it finishes, every ID that is sent is sent
\* into a channel whose Receiver exists, and no recv() or try_recv() meets a
\* disconnected channel, so no poll panics, the worker finished or not.
ChannelNeverDisconnected ==
    /\ ~events => (senders = 0 /\ worker = "none" /\ chan = <<>>)
    /\ events =>
          /\ senders = IF worker = "running" THEN 2 ELSE 1
          /\ ~Disconnected
    /\ pc # "panicked"
    /\ pc = "recv" => (chan # <<>> \/ ~ENABLED RecvStep)
    /\ pc = "try_recv" => ENABLED TryRecvStep

\* C30 witness: the worker has finished and recv() waits at the empty
\* channel, which the Bar's own Sender keeps connected.
RecvWaitsAfterWorkerDone ==
    /\ worker = "done"
    /\ senders = 1
    /\ pc = "recv"
    /\ chan = <<>>
    /\ components # <<>>

(***************************************************************************)
(* recv() on a Bar without a Clock.                                        *)
(***************************************************************************)
\* C31: on a Bar with no Clock, a recv() that has been entered never leaves:
\* no step returns from it or makes it fail, the channel stays empty and
\* connected and its loop cannot run, the worker running or finished.
RecvNeverReturnsWithoutClock ==
    /\ [][(pc = "recv" /\ ClockIds = {}) =>
            (pc' = "recv" /\ result' = result /\ chan' = <<>>)]_vars
    /\ []((pc = "recv" /\ ClockIds = {}) =>
            (chan = <<>> /\ ~Disconnected /\ ~ENABLED RecvStep))
    /\ []((lastOp = "recv" /\ ClockIds = {}) => pc = "recv")

\* C31 witness: recv() was called on a Bar of two Undynamic components, the
\* worker has finished, and recv() has not returned.
RecvBlockedOnUndynamicBar ==
    /\ pc = "recv"
    /\ lastOp = "recv"
    /\ result.kind = "unset"
    /\ worker = "done"
    /\ Len(components) = 2
    /\ ClockIds = {}

(***************************************************************************)
(* The IDs within one Bar.                                                 *)
(***************************************************************************)
\* C32: the IDs of the components load() has built, and of the Bar it
\* returns, increase strictly along left ++ center ++ right, so they are
\* pairwise distinct, whatever the other thread allocates meanwhile; an ID
\* the other thread was given is the ID of no component of the Bar.
IdsIncreaseAlongLists ==
    /\ \A i, j \in DOMAIN built : i < j => built[i].id < built[j].id
    /\ loadState = "ok" =>
          /\ Len(components) = Len(FlatConfig(config))
          /\ \A i, j \in DOMAIN components :
                i < j => components[i].id < components[j].id
          /\ \A k \in DOMAIN allocLog :
                allocLog[k].by = "other" => allocLog[k].value \notin ComponentIds

\* C32 witness: a Bar with one component in left and one in right was
\* loaded while the other thread allocated an ID between the two.
GapBetweenLeftAndRight ==
    /\ loadState = "ok"
    /\ Len(left) = 1 /\ Len(right) = 1
    /\ right[1].id = left[1].id + 2

=============================================================================
